---- MODULE Spec2Model ----
(***************************************************************************)
(* Model of the live temperature dashboard (main.py, utils.py).            *)
(*                                                                         *)
(* Units.  Timestamps are whole epoch seconds.  Temperatures are whole     *)
(* tenths of a degree Celsius.  A percentile is kept in hundredths of a    *)
(* tenth (value * 100), so that numpy's linear interpolation between order *)
(* statistics is exact in integers.                                        *)
(*                                                                         *)
(* Python's None is the empty tuple <<>>; a present value v is <<v>>.      *)
(***************************************************************************)
EXTENDS Integers, Sequences, FiniteSets, TLC

\* ---------------- Configuration (main.py 13-18) ----------------
WINDOW_PAST_SEC == 600
WINDOW_FUTURE_SEC == 600
FORECAST_WINDOW == 64
FUTURE_POINTS == 40

\* compute_normal_band: minimum history and the two percentiles
MIN_BAND_SAMPLES == 20
LOW_PERCENTILE == 5
HIGH_PERCENTILE == 95

\* danger levels of update(): 0.5 and 2.0 degrees, in tenths of a degree
SLIGHT_MAX == 5
MODERATE_MAX == 20

\* aggregateWindow(every: 5s) of the range query
SAMPLE_PERIOD == 5

\* ---------------- Bounds of the model ----------------
\* longest series a fetch returns in the dashboard specification
MaxLen == 11
\* longest series, largest window and most future steps handed to the
\* forecast helper on its own
MaxSeries == 5
MaxWindow == 4
MaxFuture == 2
\* most reference values handed to the band helper on its own
MaxRef == 21

None == <<>>
Some(v) == <<v>>

Devices == {"device01", "device02", "device03"}
DeviceOrder == <<"device01", "device02", "device03">>

Range(s) == {s[i] : i \in 1..Len(s)}
Min2(a, b) == IF a <= b THEN a ELSE b
SetMax(S) == CHOOSE m \in S : \A x \in S : x <= m

\* ---------------- Python list slicing ----------------
\* s[-window:] for window >= 0.  Python reads -0 as 0, so s[-0:] is s[0:],
\* the whole list; a window longer than the list also gives the whole list.
slice_last(s, window) ==
    IF window = 0 \/ window >= Len(s) THEN s
    ELSE SubSeq(s, Len(s) - window + 1, Len(s))

\* ---------------- AR(2) forecast helper ----------------
\* What np.linalg.lstsq can give: LinAlgError, or coefficients (c, a1, a2).
\* The fit itself is numpy's; the model leaves its outcome to the
\* environment, which is sound for every property that does not depend on
\* the coefficients' values.
LinAlgError == [ok |-> FALSE, beta |-> <<0, 0, 0>>]
Beta(c, a1, a2) == [ok |-> TRUE, beta |-> <<c, a1, a2>>]
Fits == {LinAlgError, Beta(0, 2, -1)}
AllFits == {LinAlgError, Beta(0, 1, 0), Beta(0, 2, -1), Beta(3, 0, 1)}

Unavailable == [ok |-> FALSE, t |-> <<>>, y |-> <<>>, fitted |-> <<>>]

\* np.linspace(0.0, horizon_sec, n_future + 1)
linspace0(horizon_sec, n_future) ==
    [k \in 1..(n_future + 1) |->
        IF n_future = 0 THEN 0 ELSE ((k - 1) * horizon_sec) \div n_future]

future_offsets(horizon_sec, n_future) == linspace0(horizon_sec, n_future)

\* the recursion of lines 100-110: the last real value, then n_future
\* simulated values
RECURSIVE simulate(_, _, _, _)
simulate(beta, y_tm2, y_tm1, n) ==
    IF n = 0 THEN <<>>
    ELSE LET y_next == beta[1] + beta[2] * y_tm1 + beta[3] * y_tm2
         IN <<y_next>> \o simulate(beta, y_tm1, y_next, n - 1)

forecast_valuesNoAnchor(beta, temps_arr, n_future) ==
    simulate(beta, temps_arr[Len(temps_arr) - 1], temps_arr[Len(temps_arr)],
             n_future + 1)

forecast_values(beta, temps_arr, n_future) ==
    <<temps_arr[Len(temps_arr)]>> \o
    simulate(beta, temps_arr[Len(temps_arr) - 1], temps_arr[Len(temps_arr)],
             n_future)

\* compute_forecast_line_ar2(times, temps, window, horizon_sec, n_future);
\* fit is what lstsq gives on the design matrix built from temps_arr.  The
\* result also carries temps_arr, the samples the model was fitted on.
compute_forecast_line_ar2(times, temps, window, horizon_sec, n_future, fit) ==
    IF Len(times) < 3 \/ temps = <<>> THEN Unavailable
    ELSE LET temps_arr == slice_last(temps, window)
             times_window == slice_last(times, window)
             n == Len(temps_arr)
         IN IF n < 3 THEN Unavailable
            ELSE IF ~fit.ok THEN Unavailable
            ELSE LET t_last == times_window[Len(times_window)]
                     offs == future_offsets(horizon_sec, n_future)
                 IN [ok |-> TRUE,
                     t |-> [k \in 1..(n_future + 1) |-> t_last + offs[k]],
                     y |-> forecast_values(fit.beta, temps_arr, n_future),
                     fitted |-> temps_arr]

\* ---------------- Normal-range helper ----------------
\* the k-th smallest (k = 0 is the smallest) of a non-empty list
KthSmallest(arr, k) ==
    CHOOSE v \in Range(arr) :
        /\ Cardinality({i \in 1..Len(arr) : arr[i] < v}) <= k
        /\ k < Cardinality({i \in 1..Len(arr) : arr[i] <= v})

\* np.percentile(arr, q), linear interpolation, times 100: the rank is
\* q/100 * (n-1); the result lies between the order statistics around it.
percentile(arr, q) ==
    LET rank100 == q * (Len(arr) - 1)
        i == rank100 \div 100
        frac == rank100 % 100
        lo == KthSmallest(arr, i)
        hi == IF frac = 0 THEN lo ELSE KthSmallest(arr, i + 1)
    IN 100 * lo + frac * (hi - lo)

NoBand == [low |-> None, high |-> None]

compute_normal_bandOffByOne(temps) ==
    IF Len(temps) <= MIN_BAND_SAMPLES THEN NoBand
    ELSE [low |-> Some(percentile(temps, LOW_PERCENTILE)),
          high |-> Some(percentile(temps, HIGH_PERCENTILE))]

compute_normal_band(temps) ==
    IF Len(temps) < MIN_BAND_SAMPLES THEN NoBand
    ELSE [low |-> Some(percentile(temps, LOW_PERCENTILE)),
          high |-> Some(percentile(temps, HIGH_PERCENTILE))]

\* ---------------- Classification of one latest value ----------------
\* lines 297-327 of update(), for one (dev_name, t_last, v_last) and a
\* defined band; v_last is in tenths, the band in hundredths of a tenth.
\* An OK message carries no difference.
classifyStrict(dev_name, v_last, normal_low, normal_high) ==
    LET v == 100 * v_last
    IN IF normal_low <= v /\ v <= normal_high
       THEN [dev |-> dev_name, v |-> v_last, level |-> "OK", diff |-> None,
             low |-> normal_low, high |-> normal_high]
       ELSE LET diff == IF v < normal_low THEN normal_low - v
                        ELSE v - normal_high
                level == IF diff < 100 * SLIGHT_MAX
                         THEN "slightly out of range"
                         ELSE IF diff < 100 * MODERATE_MAX
                         THEN "out of range"
                         ELSE "far out of range"
            IN [dev |-> dev_name, v |-> v_last, level |-> level,
                diff |-> Some(diff), low |-> normal_low, high |-> normal_high]

classify(dev_name, v_last, normal_low, normal_high) ==
    LET v == 100 * v_last
    IN IF normal_low <= v /\ v <= normal_high
       THEN [dev |-> dev_name, v |-> v_last, level |-> "OK", diff |-> None,
             low |-> normal_low, high |-> normal_high]
       ELSE LET diff == IF v < normal_low THEN normal_low - v
                        ELSE v - normal_high
                level == IF diff <= 100 * SLIGHT_MAX
                         THEN "slightly out of range"
                         ELSE IF diff <= 100 * MODERATE_MAX
                         THEN "out of range"
                         ELSE "far out of range"
            IN [dev |-> dev_name, v |-> v_last, level |-> level,
                diff |-> Some(diff), low |-> normal_low, high |-> normal_high]

\* ---------------- The range query (utils.py) ----------------
\* A query result is a data frame: no columns at all when the query matched
\* nothing, else a _value column whose cells are numbers or null (the mean
\* of a 5 s window that held no reading: createEmpty: true).
EmptyFrame == [has_value |-> FALSE, col |-> <<>>]
Frame(col) == [has_value |-> TRUE, col |-> col]

\* Series.dropna().tolist()
RECURSIVE dropna(_)
dropna(col) ==
    IF col = <<>> THEN <<>>
    ELSE IF Head(col) = None THEN dropna(Tail(col))
    ELSE <<Head(col)[1]>> \o dropna(Tail(col))

\* What a call of the range fetch gives its caller: a (times, temps) pair, a
\* flat list of values, or an exception.
ReturnsPair(times, temps) ==
    [tag |-> "pair", times |-> times, temps |-> temps, vals |-> <<>>]
ReturnsList(vals) ==
    [tag |-> "list", times |-> <<>>, temps |-> <<>>, vals |-> vals]
RaisesKeyError ==
    [tag |-> "KeyError", times |-> <<>>, temps |-> <<>>, vals |-> <<>>]

\* get_temperature_data_in_range of utils.py on the frame its query gave:
\* df['_value'] raises KeyError on a frame without that column; otherwise
\* the values alone come back as one flat list, without timestamps.
get_temperature_data_in_range(df) ==
    IF ~df.has_value THEN RaisesKeyError
    ELSE ReturnsList(dropna(df.col))

\* ---------------- Inputs ----------------
\* a series of n samples, one every SAMPLE_PERIOD seconds, ending at t_end;
\* the values wander around base and end at last
SeriesTimes(n, t_end) == [k \in 1..n |-> t_end - SAMPLE_PERIOD * (n - k)]
SeriesTemps(n, base, last) ==
    [k \in 1..n |-> IF k = n THEN last ELSE base + ((k * 3) % 7)]
Series(n, t_end, base, last) ==
    ReturnsPair(SeriesTimes(n, t_end), SeriesTemps(n, base, last))

\* the fetch the dashboard is written against: timestamps and values,
\* aligned, ascending, possibly empty
PairResults ==
    {Series(0, 0, 0, 0), Series(2, 95, 200, 230),
     Series(MaxLen - 1, 100, 200, 206), Series(MaxLen, 105, 200, 179)}

\* the frames the range query of utils.py can give
QueryFrames ==
    {EmptyFrame, Frame(<<Some(215)>>), Frame(<<Some(0), None, Some(215)>>),
     Frame(<<Some(215), Some(0)>>), Frame(<<Some(214), Some(215), Some(216)>>)}

FetchResults(impl) ==
    IF impl = "pair" THEN PairResults
    ELSE {get_temperature_data_in_range(df) : df \in QueryFrames}

\* where the user can pan or zoom the view to
UserRanges == {<<0, 50>>, <<40, 200>>}

\* ---------------- State ----------------
VARIABLES
    fetch_impl,      \* which range fetch the process runs with
    curve,           \* curve1..3: the data each real curve shows
    forecast_curve,  \* forecast_curve1..3
    latest_ts,       \* axis.latest_ts
    status,          \* status_label
    view,            \* the view box's x range, <<left, right>>
    auto_center,     \* the global auto_center
    tick,            \* the last call of update(): how it ended, what it read
    user_navigated,  \* history: the user has panned or zoomed
    event,           \* history: what the last step was
    pc,              \* statement-level run of update(): where it stands
    locals,          \* statement-level run of update(): its local variables
    before,          \* history: the frame when the running update() began
    ar,              \* the forecast helper on its own: arguments and result
    nb               \* the band and the classification on their own

frame_vars == <<curve, forecast_curve, latest_ts, status, view, auto_center>>
hist_vars == <<tick, user_navigated, event>>
step_vars == <<pc, locals, before>>
vars == <<fetch_impl, frame_vars, hist_vars, step_vars, ar, nb>>

\* what the user sees, as one value
Frame_ ==
    [curve |-> curve, forecast_curve |-> forecast_curve,
     latest_ts |-> latest_ts, status |-> status, view |-> view,
     auto_center |-> auto_center]

Show(f) ==
    /\ curve' = f.curve
    /\ forecast_curve' = f.forecast_curve
    /\ latest_ts' = f.latest_ts
    /\ status' = f.status
    /\ view' = f.view
    /\ auto_center' = f.auto_center

\* ---------------- Widgets ----------------
Cleared == [x |-> <<>>, y |-> <<>>]
setData(x, y) == [x |-> x, y |-> y]
Status(text) == [text |-> text, messages |-> <<>>]
Messages(msgs) == [text |-> "Status: ", messages |-> msgs]

\* on_range_changed, connected to view.sigXRangeChanged
on_range_changed(f) == [f EXCEPT !.auto_center = FALSE]

\* plot.setXRange(left, right): the view box takes the range and, when its
\* x range changed by that, emits sigXRangeChanged, whoever asked for the
\* change; the connected slot runs before setXRange returns.
setXRange(f, left, right) ==
    IF f.view = <<left, right>> THEN f
    ELSE on_range_changed([f EXCEPT !.view = <<left, right>>])

\* lines 331-333: keep NOW centered unless auto_center is off
on_new_latestAlways(f, t_latest) ==
    setXRange(f, t_latest - WINDOW_PAST_SEC, t_latest + WINDOW_FUTURE_SEC)

on_new_latest(f, t_latest) ==
    IF f.auto_center
    THEN setXRange(f, t_latest - WINDOW_PAST_SEC, t_latest + WINDOW_FUTURE_SEC)
    ELSE f

\* ---------------- update(), block by block ----------------
\* lines 185-191: what update() holds of one device after unpacking the
\* fetch's return value into (times, temps) and np.array(times or []).
\* A two-element flat list unpacks into two floats; np.array of a non-zero
\* float is a 0-d array (dim 0), of which len() raises TypeError; a float
\* 0.0 is falsy and gives the empty array.
Unpacked(ret) ==
    IF ret.tag = "pair"
    THEN [dim |-> 1, times |-> ret.times, temps |-> ret.temps]
    ELSE IF ret.vals[1] = 0
    THEN [dim |-> 1, times |-> <<>>, temps |-> <<ret.vals[2]>>]
    ELSE [dim |-> 0, times |-> <<ret.vals[1]>>, temps |-> <<ret.vals[2]>>]

\* the fetch raises, or "times, temps = <list>" raises ValueError
RaisesOnFetch(ret) ==
    \/ ret.tag = "KeyError"
    \/ ret.tag = "list" /\ Len(ret.vals) # 2

\* update() raises before it touched any widget: in a fetch or an unpacking
\* (185-187), or in len() of a 0-d array in the no-data test (194).  All
\* three fetches are calls of one function, so with one 0-d array every
\* other array is 0-d or empty, and the test reaches a 0-d array.
Raises(rets) ==
    \/ \E d \in Devices : RaisesOnFetch(rets[d])
    \/ \E d \in Devices : Unpacked(rets[d]).dim = 0

NoSeries == [dim |-> 1, times |-> <<>>, temps |-> <<>>]
NoUpdate == [result |-> "none", in |-> [d \in Devices |-> NoSeries],
             fit |-> [d \in Devices |-> LinAlgError]]

IsEmpty(in, d) == Len(in[d].times) = 0

\* lines 194-199
NoData(in) == \A d \in Devices : IsEmpty(in, d)

no_data_frameKeepsForecast(f) ==
    [f EXCEPT !.latest_ts = None,
              !.curve = [d \in Devices |-> Cleared],
              !.status = Status("Status: no data available.")]

no_data_frame(f) ==
    [f EXCEPT !.latest_ts = None,
              !.curve = [d \in Devices |-> Cleared],
              !.forecast_curve = [d \in Devices |-> Cleared],
              !.status = Status("Status: no data available.")]

\* lines 201-215
plot_real(f, in) ==
    [f EXCEPT !.curve = [d \in Devices |->
        IF ~IsEmpty(in, d) THEN setData(in[d].times, in[d].temps)
        ELSE Cleared]]

\* lines 218-225: (device_name, latest_time, latest_value) of the devices
\* that have data, in device order
RECURSIVE latest_info_from(_, _)
latest_info_from(in, i) ==
    IF i > Len(DeviceOrder) THEN <<>>
    ELSE LET d == DeviceOrder[i]
             n == Len(in[d].times)
         IN (IF n > 0
             THEN <<[dev |-> d, t |-> in[d].times[n], v |-> in[d].temps[n]]>>
             ELSE <<>>) \o latest_info_from(in, i + 1)

latest_info(in) == latest_info_from(in, 1)

\* lines 227-233
no_latest_frame(f) ==
    [f EXCEPT !.latest_ts = None,
              !.forecast_curve = [d \in Devices |-> Cleared],
              !.status = Status("Status: no latest measurements.")]

\* line 236
t_latest_ofMin(info) ==
    CHOOSE m \in {info[i].t : i \in 1..Len(info)} :
        \A i \in 1..Len(info) : m <= info[i].t

t_latest_of(info) == SetMax({info[i].t : i \in 1..Len(info)})

\* line 237
set_latestAndCenter(f, t_latest) ==
    on_new_latest([f EXCEPT !.latest_ts = Some(t_latest)], t_latest)

set_latest(f, t_latest) == [f EXCEPT !.latest_ts = Some(t_latest)]

\* lines 239-280
forecast_of(in, fit, d) ==
    compute_forecast_line_ar2(in[d].times, in[d].temps, FORECAST_WINDOW,
                              WINDOW_FUTURE_SEC, FUTURE_POINTS, fit[d])

plot_forecast(f, in, fit) ==
    [f EXCEPT !.forecast_curve = [d \in Devices |->
        IF ~IsEmpty(in, d)
        THEN LET fc == forecast_of(in, fit, d)
             IN IF fc.ok THEN setData(fc.t, fc.y) ELSE Cleared
        ELSE Cleared]]

\* lines 282-289: device02 and device03 together are the reference
combined_ref_temps(in) == in["device02"].temps \o in["device03"].temps

\* lines 291-329
status_of(info, band) ==
    IF band.low = None \/ band.high = None
    THEN Status("Status: not enough device02+device03 history to define normal range.")
    ELSE Messages([i \in 1..Len(info) |->
            classify(info[i].dev, info[i].v, band.low[1], band.high[1])])

set_status(f, in, info) ==
    [f EXCEPT !.status = status_of(info, compute_normal_band(combined_ref_temps(in)))]

\* update() as a whole, from the unpacked fetch results on, when it does not
\* raise
update_frame(f, in, fit) ==
    IF NoData(in) THEN no_data_frame(f)
    ELSE LET f1 == plot_real(f, in)
             info == latest_info(in)
         IN IF info = <<>> THEN no_latest_frame(f1)
            ELSE LET t_latest == t_latest_of(info)
                     f2 == set_latest(f1, t_latest)
                     f3 == plot_forecast(f2, in, fit)
                     f4 == set_status(f3, in, info)
                 IN on_new_latest(f4, t_latest)

\* ---------------- The dashboard ----------------
NoLocals == [rets |-> [d \in Devices |-> RaisesKeyError],
             in |-> [d \in Devices |-> NoSeries],
             fit |-> [d \in Devices |-> LinAlgError]]
NoCall == [times |-> <<>>, temps |-> <<>>, window |-> 0, horizon_sec |-> 0,
           n_future |-> 0, fit |-> LinAlgError, done |-> FALSE,
           result |-> Unavailable]
NoBandCall == [temps |-> <<>>, v_last |-> 0, done |-> FALSE, band |-> NoBand,
               status |-> Status("")]

\* the state after the module's set-up code (lines 20, 123-173)
InitDashboard ==
    /\ curve = [d \in Devices |-> Cleared]
    /\ forecast_curve = [d \in Devices |-> Cleared]
    /\ latest_ts = None
    /\ status = Status("Status: waiting for data...")
    /\ view = <<0, 1>>  \* a view box's range before any range is set
    /\ auto_center = TRUE
    /\ tick = NoUpdate
    /\ user_navigated = FALSE
    /\ event = "start"
    /\ pc = "idle"
    /\ locals = NoLocals
    /\ before = Frame_

Init ==
    /\ fetch_impl \in {"pair", "list"}
    /\ InitDashboard
    /\ ar = NoCall
    /\ nb = NoBandCall

\* An exception out of update() ends the process when it leaves the call of
\* line 349, uncaught at module level.  Out of the timer's slot it depends
\* on the Qt binding pyqtgraph runs on: PyQt aborts the process, PySide
\* prints the traceback and the event loop goes on.
Running == tick.result # "terminated"

RaiseOutcomes == IF event = "start" THEN {"terminated"}
                 ELSE {"raised", "terminated"}

\* lstsq is called for a device only when its series has 3 samples or more
FitChoices(rets) ==
    {fit \in [Devices -> Fits] :
        \A d \in Devices : Len(rets[d].times) < 3 => fit[d] = LinAlgError}

\* one call of update(), by the timer or by line 349
Update ==
    /\ Running
    /\ pc = "idle"
    /\ \E rets \in [Devices -> FetchResults(fetch_impl)] :
         \E fit \in FitChoices(rets) :
           IF Raises(rets)
           THEN /\ \E r \in RaiseOutcomes :
                     tick' = [NoUpdate EXCEPT !.result = r]
                /\ UNCHANGED frame_vars
           ELSE LET in == [d \in Devices |-> Unpacked(rets[d])]
                IN /\ Show(update_frame(Frame_, in, fit))
                   /\ tick' = [result |-> IF NoData(in) THEN "no_data"
                                          ELSE "frame",
                               in |-> in, fit |-> fit]
    /\ event' = "update"
    /\ UNCHANGED <<fetch_impl, user_navigated, step_vars, ar, nb>>

\* the user pans or zooms the view to another x range; the event loop runs
\* only after the first update() (lines 349-350)
UserNavigate ==
    /\ Running
    /\ pc = "idle"
    /\ tick.result # "none"
    /\ \E r \in UserRanges :
         /\ r # view
         /\ Show(setXRange(Frame_, r[1], r[2]))
    /\ user_navigated' = TRUE
    /\ event' = "navigate"
    /\ UNCHANGED <<fetch_impl, tick, step_vars, ar, nb>>

Next == Update \/ UserNavigate

Spec == Init /\ [][Next]_vars

\* ---------------- update(), statement by statement ----------------
\* The same blocks, one step each, so that the frame between two blocks is
\* a state.  The process is single-threaded: while update() runs, no other
\* slot runs.
StepResults == {Series(0, 0, 0, 0), Series(MaxLen - 1, 100, 200, 206)}

\* lines 178-191
StepFetch ==
    /\ Running
    /\ pc = "idle"
    /\ \E rets \in [Devices -> StepResults] :
         \E fit \in FitChoices(rets) :
           locals' = [rets |-> rets,
                      in |-> [d \in Devices |-> Unpacked(rets[d])],
                      fit |-> fit]
    /\ before' = Frame_
    /\ pc' = "fetched"
    /\ tick' = [NoUpdate EXCEPT !.result = "running"]
    /\ UNCHANGED <<fetch_impl, frame_vars, user_navigated, event, ar, nb>>

Return(result) ==
    /\ pc' = "idle"
    /\ tick' = [NoUpdate EXCEPT !.result = result]
    /\ locals' = NoLocals
    /\ before' = Frame_'
    /\ event' = "update"
    /\ UNCHANGED <<fetch_impl, user_navigated, ar, nb>>

Goto(label) ==
    /\ pc' = label
    /\ UNCHANGED <<fetch_impl, hist_vars, locals, before, ar, nb>>

\* lines 194-199
StepNoData ==
    /\ pc = "fetched"
    /\ NoData(locals.in)
    /\ Show(no_data_frame(Frame_))
    /\ Return("no_data")

\* lines 201-215
StepPlotReal ==
    /\ pc = "fetched"
    /\ ~NoData(locals.in)
    /\ Show(plot_real(Frame_, locals.in))
    /\ Goto("plotted")

\* lines 217-237
StepSetLatest ==
    /\ pc = "plotted"
    /\ IF latest_info(locals.in) = <<>>
       THEN Show(no_latest_frame(Frame_)) /\ Return("no_latest")
       ELSE /\ Show(set_latest(Frame_, t_latest_of(latest_info(locals.in))))
            /\ Goto("latest_set")

\* lines 239-280
StepForecast ==
    /\ pc = "latest_set"
    /\ Show(plot_forecast(Frame_, locals.in, locals.fit))
    /\ Goto("forecast_plotted")

\* lines 282-329
StepStatus ==
    /\ pc = "forecast_plotted"
    /\ Show(set_status(Frame_, locals.in, latest_info(locals.in)))
    /\ Goto("status_set")

\* lines 331-333
StepCenter ==
    /\ pc = "status_set"
    /\ Show(on_new_latest(Frame_, t_latest_of(latest_info(locals.in))))
    /\ Return("frame")

\* update() is left by an exception raised between two of its blocks (a
\* KeyboardInterrupt, which Python raises in whatever code is running, or
\* an error of a widget call); nothing in update() catches it or undoes
\* what the blocks before did
Abandon ==
    /\ pc \notin {"idle", "abandoned"}
    /\ pc' = "abandoned"
    /\ UNCHANGED <<fetch_impl, frame_vars, hist_vars, locals, before, ar, nb>>

\* the exception has left update(): the process ends, or the event loop
\* goes on with the frame as it is
AfterAbandon ==
    /\ pc = "abandoned"
    /\ pc' = "idle"
    /\ \E r \in RaiseOutcomes : tick' = [NoUpdate EXCEPT !.result = r]
    /\ locals' = NoLocals
    /\ before' = Frame_
    /\ event' = "update"
    /\ UNCHANGED <<fetch_impl, frame_vars, user_navigated, ar, nb>>

InitSteps ==
    /\ fetch_impl = "pair"
    /\ InitDashboard
    /\ ar = NoCall
    /\ nb = NoBandCall

NextSteps ==
    \/ StepFetch
    \/ StepNoData
    \/ StepPlotReal
    \/ StepSetLatest
    \/ StepForecast
    \/ StepStatus
    \/ StepCenter
    \/ Abandon
    \/ AfterAbandon
    \/ UserNavigate

SpecSteps == InitSteps /\ [][NextSteps]_vars

\* ---------------- The forecast helper on its own ----------------
Horizons == {0, 60, 600}

ForecastCalls ==
    {[times |-> SeriesTimes(n, 100), temps |-> SeriesTemps(n, base, base + 9),
      window |-> w, horizon_sec |-> h, n_future |-> nf, fit |-> fit,
      done |-> FALSE, result |-> Unavailable] :
        n \in 0..MaxSeries, base \in {200}, w \in 0..MaxWindow,
        h \in Horizons, nf \in 0..MaxFuture, fit \in AllFits}

InitAR2 ==
    /\ fetch_impl = "pair"
    /\ InitDashboard
    /\ ar \in ForecastCalls
    /\ nb = NoBandCall

ForecastCall ==
    /\ ~ar.done
    /\ ar' = [ar EXCEPT !.done = TRUE,
                        !.result = compute_forecast_line_ar2(
                            ar.times, ar.temps, ar.window, ar.horizon_sec,
                            ar.n_future, ar.fit)]
    /\ UNCHANGED <<fetch_impl, frame_vars, hist_vars, step_vars, nb>>

SpecAR2 == InitAR2 /\ [][ForecastCall]_vars

\* ---------------- The band and the classification on their own ----------
\* reference values as device02 and device03 give them, unsorted: a list
\* with many equal values, and a list of distinct values
RefTemps(n, p) ==
    [k \in 1..n |-> IF p = 1 THEN 200 + ((k * 3) % 7)
                    ELSE 200 + 3 * ((k * 5) % (MaxRef + 2))]

LatestValues == 170..300

BandCalls ==
    {[temps |-> RefTemps(n, p), v_last |-> v, done |-> FALSE,
      band |-> NoBand, status |-> Status("")] :
        n \in 0..MaxRef, p \in {1, 2}, v \in LatestValues}

InitBand ==
    /\ fetch_impl = "pair"
    /\ InitDashboard
    /\ ar = NoCall
    /\ nb \in BandCalls

\* lines 289-329 for one device's latest value
BandCall ==
    /\ ~nb.done
    /\ LET band == compute_normal_band(nb.temps)
           info == <<[dev |-> "device01", t |-> 100, v |-> nb.v_last]>>
       IN nb' = [nb EXCEPT !.done = TRUE, !.band = band,
                           !.status = status_of(info, band)]
    /\ UNCHANGED <<fetch_impl, frame_vars, hist_vars, step_vars, ar>>

SpecBand == InitBand /\ [][BandCall]_vars

\* ======================= Properties =======================
Centered(t_latest) ==
    <<t_latest - WINDOW_PAST_SEC, t_latest + WINDOW_FUTURE_SEC>>

NonEmpty(in) == {d \in Devices : Len(in[d].times) > 0}
LastTimes(in) == {in[d].times[Len(in[d].times)] : d \in NonEmpty(in)}

\* C1: once the user has panned or zoomed, or on_range_changed has run for
\* any other reason, auto_center is off and stays off, and no later update()
\* changes the view's range, whatever t_latest it sees.
C1_PinnedIsTerminal ==
    [][/\ user_navigated => ~auto_center
       /\ ~auto_center =>
            /\ ~auto_center'
            /\ (event' = "update" => view' = view)]_vars

\* an update() that drew a frame after the user navigated, with a t_latest
\* other than the one the view would be centered on
C1_Witness ==
    /\ user_navigated
    /\ event = "update"
    /\ tick.result = "frame"
    /\ view \in UserRanges
    /\ latest_ts # None
    /\ view # Centered(latest_ts[1])

\* C2: as long as the user has not navigated, after every update() that had
\* data the view is (t_latest - past, t_latest + future) for that update's
\* t_latest, and auto_center is still on.
C2_FollowingPersists ==
    (~user_navigated /\ event = "update" /\ tick.result = "frame") =>
        /\ latest_ts # None
        /\ view = Centered(latest_ts[1])
        /\ auto_center

\* C3: an update() that found every series empty clears all real and
\* forecast curves, unsets the latest timestamp, reports no band and no
\* deviation, and leaves the view's range and auto_center as they were.
C3_NoDataFrame ==
    [][(event' = "update" /\ tick'.result \in {"no_data", "frame"}
          /\ \A d \in Devices : Len(tick'.in[d].times) = 0) =>
         /\ \A d \in Devices :
              curve'[d] = Cleared /\ forecast_curve'[d] = Cleared
         /\ latest_ts' = None
         /\ status' = Status("Status: no data available.")
         /\ view' = view
         /\ auto_center' = auto_center]_vars

\* a no-data update() after one that had drawn curves and set the view
C3_Witness ==
    /\ fetch_impl = "pair"
    /\ event = "update"
    /\ tick.result = "no_data"
    /\ view # <<0, 1>>
    /\ ~user_navigated

\* C4 as stated: after an update() with data, t_latest is the largest last
\* timestamp of the non-empty series, and a device has its curve and its
\* forecast when its series is non-empty and neither when it is empty.
C4_CurveAndForecastIfNonEmpty ==
    tick.result = "frame" =>
        /\ latest_ts # None
        /\ latest_ts[1] \in LastTimes(tick.in)
        /\ \A t \in LastTimes(tick.in) : t <= latest_ts[1]
        /\ \A d \in Devices :
             IF d \in NonEmpty(tick.in)
             THEN /\ curve[d] = [x |-> tick.in[d].times, y |-> tick.in[d].temps]
                  /\ forecast_curve[d] # Cleared
             ELSE curve[d] = Cleared /\ forecast_curve[d] = Cleared

\* C4 as amended: the forecast is there exactly when the series has three
\* samples or more and the fit did not fail.
C4_CurveAndForecastIfAvailable ==
    tick.result = "frame" =>
        /\ latest_ts # None
        /\ latest_ts[1] \in LastTimes(tick.in)
        /\ \A t \in LastTimes(tick.in) : t <= latest_ts[1]
        /\ \A d \in Devices :
             IF d \in NonEmpty(tick.in)
             THEN /\ curve[d] = [x |-> tick.in[d].times, y |-> tick.in[d].temps]
                  /\ (forecast_curve[d] # Cleared <=>
                        (Len(tick.in[d].times) >= 3 /\ tick.fit[d].ok))
             ELSE curve[d] = Cleared /\ forecast_curve[d] = Cleared

\* device01 empty, device02 too short for a forecast, device03 with one,
\* and the latest timestamp not device02's
C4_Witness ==
    /\ tick.result = "frame"
    /\ Len(tick.in["device01"].times) = 0
    /\ Len(tick.in["device02"].times) = 2
    /\ forecast_curve["device02"] = Cleared
    /\ forecast_curve["device03"] # Cleared
    /\ latest_ts = Some(105)

\* C5: an available forecast starts at the series' last real sample,
\* timestamp and value, for every window, horizon and n_future.
C5_Continuity ==
    (ar.done /\ ar.result.ok) =>
        /\ ar.result.t[1] = ar.times[Len(ar.times)]
        /\ ar.result.y[1] = ar.temps[Len(ar.temps)]

\* a forecast of no future step at all, fitted on a window shorter than
\* the series
C5_Witness ==
    /\ ar.done
    /\ ar.result.ok
    /\ ar.n_future = 0
    /\ ar.horizon_sec = 600
    /\ ar.window = 3
    /\ Len(ar.temps) = 5

\* C6: the forecast is fitted on exactly the last min(window, length)
\* samples and is unavailable whenever those are fewer than 3.
C6_FittedOnLastWindow ==
    ar.done =>
        LET n == Len(ar.temps)
            m == Min2(ar.window, n)
        IN /\ m < 3 => ~ar.result.ok
           /\ ar.result.ok => ar.result.fitted = SubSeq(ar.temps, n - m + 1, n)

Levels == {"OK", "slightly out of range", "out of range", "far out of range"}

\* C7: against a defined band every value gets exactly one severity: OK,
\* with no difference, exactly when low <= value <= high; otherwise the
\* difference is low - value below and value - high above, is positive, and
\* decides the severity: slight up to 0.5, moderate above 0.5 up to 2.0,
\* severe above 2.0 degrees (500 and 2000 hundredths of a tenth).
C7_Classification ==
    (nb.done /\ nb.band # NoBand) =>
        LET low == nb.band.low[1]
            high == nb.band.high[1]
            v == 100 * nb.v_last
            delta == IF v < low THEN low - v
                     ELSE IF v > high THEN v - high ELSE 0
        IN /\ Len(nb.status.messages) = 1
           /\ LET m == nb.status.messages[1]
              IN /\ m.level \in Levels
                 /\ m.level = "OK" <=> (low <= v /\ v <= high)
                 /\ m.level = "OK" => (m.diff = None /\ delta = 0)
                 /\ m.level # "OK" => (m.diff = Some(delta) /\ delta > 0)
                 /\ m.level = "slightly out of range" <=>
                        (0 < delta /\ delta <= 500)
                 /\ m.level = "out of range" <=>
                        (500 < delta /\ delta <= 2000)
                 /\ m.level = "far out of range" <=> delta > 2000

\* a value exactly 0.5 degrees below the band
C7_Witness ==
    /\ nb.done
    /\ nb.band # NoBand
    /\ 100 * nb.v_last = nb.band.low[1] - 500
    /\ nb.status.messages[1].level = "slightly out of range"

\* C8: the band is undefined exactly when fewer than 20 reference values
\* are supplied, and a defined band has low <= high.
C8_BandDefined ==
    nb.done =>
        /\ nb.band = NoBand <=> Len(nb.temps) < 20
        /\ nb.band # NoBand =>
             /\ nb.band.low # None
             /\ nb.band.high # None
             /\ nb.band.low[1] <= nb.band.high[1]

\* exactly 20 reference values, with a band of positive width
C8_Witness ==
    /\ nb.done
    /\ Len(nb.temps) = 20
    /\ nb.band # NoBand
    /\ nb.band.low[1] < nb.band.high[1]

\* C9: no update() raises or ends the process, whatever the range fetch
\* returns.
C9_NoTickAborts == tick.result \notin {"raised", "terminated"}

\* C10 as stated: while update() runs, and when it is abandoned, the frame
\* is the one from before it began.
C10_FrameUntouchedBeforeLastStep == pc # "idle" => Frame_ = before

\* C10 as amended: while update() runs, and when it is abandoned, the
\* view's range and auto_center are the ones from before it began.
C10_ViewUntouchedBeforeLastStep ==
    pc # "idle" => (view = before.view /\ auto_center = before.auto_center)

\* an update() abandoned while auto_center was on and after it had redrawn
\* curves and status
C10_Witness ==
    /\ pc = "abandoned"
    /\ auto_center
    /\ curve # before.curve
    /\ status # before.status

====
